---- MODULE Spec2Model ----
(***************************************************************************)
(* The ten TestSprite scripts of testsprite_tests/ as one state machine.   *)
(* A run executes one script: it issues the script's requests in program   *)
(* order, the backend answers each with an arbitrary response (or the      *)
(* transport fails), and the script's assertions and exception handlers    *)
(* decide how the test function ends.                                      *)
(*                                                                         *)
(* JSON values are tokens: "absent" (key missing), "null", "true",         *)
(* "false", numbers "0" "0.5" "1" "2", strings "s:..." ("s:" is the empty  *)
(* string), and "obj" / "list" for nested containers whose content is held *)
(* in further fields.                                                      *)
(***************************************************************************)
EXTENDS Integers, Sequences, FiniteSets

VARIABLES script, pc, sent, resps, outcome, run, prev, backend

vars == <<script, pc, sent, resps, outcome, run, prev, backend>>

\* Longest JSON list the backend returns in the list-valued responses.
MaxItems == 2

\* Number of times a script is executed in the repeated-run specification.
MaxRuns == 2

Scripts == {"TC001", "TC002", "TC003", "TC004", "TC005",
            "TC006", "TC007", "TC008", "TC009", "TC010"}

\* HTTP status codes the backend answers with (300: a redirection status
\* without a Location header, which the requests library hands back as is).
Statuses == {200, 201, 300, 400, 404, 500, 503}

---------------------------------------------------------------------------
(* Python values and exceptions *)

StrTokens == {"s:", "s:x", "s:tok", "s:msg", "s:a", "s:hello",
              "s:L1", "s:L2", "s:B1", "s:A1", "s:u1",
              "s:Test User", "s:Other", "s:testuser@example.com", "s:other@example.com",
              "s:en", "s:es", "s:fr", "s:it", "s:hr", "s:zh", "s:de",
              "s:http://a", "s:ftp://a"}

\* isinstance(v, str)
IsStr(v) == v \in StrTokens

\* isinstance(v, bool)
IsBool(v) == v \in {"true", "false"}

\* isinstance(v, int): bool is a subclass of int
IsInt(v) == v \in {"0", "1", "2", "true", "false"}

\* isinstance(v, (float, int))
IsNumber(v) == IsInt(v) \/ v = "0.5"

\* Ten times the numeric value of a number token (True is 1, False is 0).
Times10(v) ==
    CASE v \in {"0", "false"} -> 0
      [] v = "0.5" -> 5
      [] v \in {"1", "true"} -> 10
      [] v = "2" -> 20
      [] OTHER -> -1

\* a == b on decoded JSON values: numbers and booleans compare by value.
PyEq(a, b) ==
    IF IsNumber(a) /\ IsNumber(b) THEN Times10(a) = Times10(b) ELSE a = b

\* bool(v): None, False, 0 and "" are falsy.  "absent" stands for the None
\* that dict.get returns for a missing key.
Truthy(v) == v \notin {"absent", "null", "false", "0", "s:"}

\* Exception classes.  requests >= 2.27 raises its own JSONDecodeError, a
\* RequestException and a ValueError; older versions raise a plain ValueError.
JsonErrors == {"RequestsJSONDecodeError", "ValueError"}

IsRequestException(e) ==
    e \in {"ConnectionError", "Timeout", "HTTPError", "RequestsJSONDecodeError"}

IsValueError(e) == e \in {"RequestsJSONDecodeError", "ValueError"}

NoExc == [exc |-> "none", line |-> 0, cause |-> "none"]

\* An exception of class e raised at source line l; cause is the kind of
\* input that made it happen.
Raise(e, l, c) == [exc |-> e, line |-> l, cause |-> c]

\* Statement a, then (when a raised nothing) statement b.
Then(a, b) == IF a.exc # "none" THEN a ELSE b

\* assert cond at line l
AssertThat(cond, l, c) == IF cond THEN NoExc ELSE Raise("AssertionError", l, c)

---------------------------------------------------------------------------
(* Responses *)

\* A response body: k is what the body decodes to ("nojson" when it does not
\* decode), f the members of an object, items the elements of a list.  e is
\* the object with every key missing.
NoJson(e) == [k |-> "nojson", f |-> e, items |-> <<>>]

JsonNull(e) == [k |-> "null", f |-> e, items |-> <<>>]

Obj(fields) == [k |-> "obj", f |-> fields, items |-> <<>>]

List(e, xs) == [k |-> "list", f |-> e, items |-> xs]

Resp(st, b) == [kind |-> "response", status |-> st, body |-> b]

\* requests.get / post / put raised: no response arrived.
TransportFailures(e) ==
    {[kind |-> x, status |-> 0, body |-> NoJson(e)] : x \in {"ConnectionError", "Timeout"}}

\* All sequences over S of length at most n.
SeqsUpTo(S, n) == UNION {[1..m -> S] : m \in 0..n}

\* response.raise_for_status()
RaiseForStatus(r, l) ==
    IF r.status >= 400 THEN Raise("HTTPError", l, "status") ELSE NoExc

\* requests.<method>(...) at line l
Request(r, l) ==
    IF r.kind # "response" THEN Raise(r.kind, l, "transport") ELSE NoExc

\* response.json() at line l, je the class the installed requests raises
Json(r, je, l) ==
    IF r.body.k = "nojson" THEN Raise(je, l, "decode") ELSE NoExc

Min(S) == CHOOSE x \in S : \A y \in S : x <= y

\* for x in xs: ... -- done[i] is what iteration i does; the loop ends with
\* the exception of the first iteration that raises
ForEach(done) ==
    LET bad == {i \in 1..Len(done) : done[i].exc # "none"}
    IN  IF bad = {} THEN NoExc ELSE done[Min(bad)]

\* The handler written as "except Exception": it catches the assertions too.
ExceptRequestException_CatchAll(raised, l) ==
    IF raised.exc # "none" THEN Raise("AssertionError", l, raised.cause) ELSE raised

\* except requests.RequestException as e: assert False, ...   (at line l)
ExceptRequestException(raised, l) ==
    IF IsRequestException(raised.exc)
    THEN Raise("AssertionError", l, raised.cause) ELSE raised

\* key in container, at line l: None is not iterable; a list (none of the
\* modelled lists holds a string) and an object without the key give False.
In(container, key, l) ==
    IF container.k = "null" THEN Raise("TypeError", l, "shape") ELSE NoExc

Has(container, key) == container.k = "obj" /\ container.f[key] # "absent"

\* The range check without its upper bound.
Is4xx_NoUpperBound(st) == 400 <= st

\* 400 <= status_code < 500
Is4xx(st) == 400 <= st /\ st < 500

---------------------------------------------------------------------------
(* TC001_test_signin_with_valid_and_invalid_credentials.py *)

E1 == [user |-> "absent", token |-> "absent", error |-> "absent", other |-> "absent"]

SigninBodies ==
    {NoJson(E1), JsonNull(E1), List(E1, <<>>)}
    \cup {Obj([E1 EXCEPT !.user = u, !.token = tk]) :
            u \in {"absent", "obj", "s:x"}, tk \in {"absent", "s:", "s:tok", "1"}}

\* Bodies of the answers to the invalid sign-ins; the member error stands
\* for any of "error", "message", "detail".
SigninErrorBodies ==
    {NoJson(E1), List(E1, <<>>)}
    \cup {Obj([E1 EXCEPT !.error = e, !.other = o]) :
            e \in {"absent", "s:msg"}, o \in {"absent", "s:x"}}

TC001_Responses(i) ==
    TransportFailures(E1)
    \cup (IF i = 1
          THEN {Resp(st, NoJson(E1)) : st \in Statuses \ {200}}
               \cup {Resp(200, b) : b \in SigninBodies}
          ELSE {Resp(200, NoJson(E1))}
               \cup {Resp(st, b) : st \in Statuses \ {200}, b \in SigninErrorBodies})

TC001_Request(i, rs) ==
    [method |-> "POST", path |-> "/auth/signin", id |-> "absent", body |-> "json",
     payload |->
        CASE i = 1 -> {<<"email", "valid_email">>, <<"password", "valid_password">>}
          [] i = 2 -> {<<"email", "invalid_email">>, <<"password", "valid_password">>}
          [] i = 3 -> {<<"email", "valid_email">>, <<"password", "invalid_password">>}]

test_signin_with_valid_and_invalid_credentials(rs, je) ==
    LET n == Len(rs)
        r == rs[n]
        json_data == r.body
        decoded == Json(r, je, 33)
        \* lines 69-77, one iteration of the loop
        ErrorInfo(res) ==
            LET json_error == res.body
                tried ==
                    Then(Json(res, je, 70),
                    Then(AssertThat(json_error.k = "obj", 71, "shape"),
                         AssertThat(Has(json_error, "error") \/ json_error.f = E1,
                                    74, "shape")))
            IN  IF IsValueError(tried.exc) THEN NoExc ELSE tried
    IN  CASE n = 1 ->
            Then(ExceptRequestException(Request(r, 26), 28),
            Then(AssertThat(r.status = 200, 31, "status"),
            Then(IF IsValueError(decoded.exc)
                 THEN Raise("AssertionError", 35, decoded.cause) ELSE decoded,
            Then(In(json_data, "user", 37),
            Then(AssertThat(Has(json_data, "user"), 37, "shape"),
            Then(AssertThat(json_data.f.user = "obj", 38, "shape"),
            Then(AssertThat(Has(json_data, "token"), 39, "shape"),
                 AssertThat(IsStr(json_data.f.token) /\ json_data.f.token # "s:",
                            40, "shape"))))))))
          [] n = 2 ->
            Then(ExceptRequestException(Request(r, 48), 50),
                 AssertThat(r.status # 200, 53, "status"))
          [] n = 3 ->
            Then(ExceptRequestException(Request(r, 61), 63),
            Then(AssertThat(r.status # 200, 65, "status"),
                 ForEach(<<ErrorInfo(rs[2]), ErrorInfo(rs[3])>>)))

---------------------------------------------------------------------------
(* TC002_test_signup_with_valid_and_invalid_data.py *)

E2 == [id |-> "absent", user |-> "absent", name |-> "absent", email |-> "absent",
       uid |-> "absent", uname |-> "absent", uemail |-> "absent"]

\* valid_user["name"] and valid_user["email"]
valid_user == [name |-> "s:Test User", email |-> "s:testuser@example.com"]

\* Members id, name, email of the object and, when member user is an object,
\* its members as uid, uname, uemail.
SignupBodies ==
    {NoJson(E2), JsonNull(E2), List(E2, <<>>)}
    \cup {Obj([id |-> i, user |-> u[1], name |-> ne[1], email |-> ne[2],
               uid |-> u[2], uname |-> u[3], uemail |-> u[4]]) :
            i \in {"absent", "s:u1"},
            ne \in {<<"absent", "absent">>, <<valid_user.name, valid_user.email>>,
                    <<"s:Other", valid_user.email>>,
                    <<valid_user.name, "s:other@example.com">>},
            u \in {<<"absent", "absent", "absent", "absent">>,
                   <<"s:x", "absent", "absent", "absent">>,
                   <<"null", "absent", "absent", "absent">>}
                  \cup {<<"obj", ui, un[1], un[2]>> :
                          ui \in {"absent", "s:u1"},
                          un \in {<<"absent", "absent">>,
                                  <<valid_user.name, valid_user.email>>}}}

TC002_Responses(i) ==
    TransportFailures(E2)
    \cup (IF i = 1
          THEN {Resp(st, NoJson(E2)) : st \in Statuses \ {200, 201}}
               \cup {Resp(st, b) : st \in {200, 201}, b \in SignupBodies}
          ELSE {Resp(st, NoJson(E2)) : st \in Statuses})

\* The list without its first, empty, entry.
invalid_users_NoEmpty ==
    << {<<"name", "NoEmailUser">>, <<"password", "test_password">>},
       {<<"name", "NoEmailUser">>, <<"password", "test_password">>},
       {<<"email", "no_name@example.com">>, <<"password", "test_password">>},
       {<<"name", "NoPasswordUser">>, <<"email", "nopassword@example.com">>},
       {<<"name", "ShortPass">>, <<"email", "shortpass@example.com">>,
        <<"password", "short">>},
       {<<"name", "InvalidEmail">>, <<"email", "invalidemail">>,
        <<"password", "test_password">>} >>

invalid_users ==
    << {},
       {<<"name", "NoEmailUser">>, <<"password", "test_password">>},
       {<<"email", "no_name@example.com">>, <<"password", "test_password">>},
       {<<"name", "NoPasswordUser">>, <<"email", "nopassword@example.com">>},
       {<<"name", "ShortPass">>, <<"email", "shortpass@example.com">>,
        <<"password", "short">>},
       {<<"name", "InvalidEmail">>, <<"email", "invalidemail">>,
        <<"password", "test_password">>} >>

TC002_Request(i, rs) ==
    [method |-> "POST", path |-> "/auth/signup", id |-> "absent", body |-> "json",
     payload |->
        IF i = 1
        THEN {<<"name", "Test User">>, <<"email", "testuser@example.com">>,
              <<"password", "test_password">>}
        ELSE invalid_users[i - 1]]

test_signup_with_valid_and_invalid_data(rs, je) ==
    LET n == Len(rs)
        r == rs[n]
        resp_json == r.body
        user == resp_json.f.user
        \* resp_json.get(key, resp_json.get("user", {}).get(key)) == valid_user[key]
        Echoed(key, ukey, l) ==
            Then(IF user \notin {"absent", "obj"}
                 THEN Raise("AttributeError", l, "shape") ELSE NoExc,
                 AssertThat(PyEq(IF Has(resp_json, key) THEN resp_json.f[key]
                                 ELSE resp_json.f[ukey],
                                 valid_user[key]), l, "shape"))
    IN  IF n = 1
        THEN Then(Request(r, 35),
             Then(AssertThat(r.status = 201 \/ r.status = 200, 36, "status"),
             Then(Json(r, je, 37),
             Then(AssertThat(resp_json.k = "obj", 39, "shape"),
             Then(AssertThat(Has(resp_json, "id") \/ Has(resp_json, "user"), 40, "shape"),
             Then(IF ~Has(resp_json, "id") /\ (user = "null" \/ IsNumber(user))
                  THEN Raise("TypeError", 44, "shape") ELSE NoExc,
             Then(Echoed("name", "uname", 46),
                  Echoed("email", "uemail", 47))))))))
        ELSE Then(Request(r, 51),
                  AssertThat(400 <= r.status /\ r.status < 500, 53, "status"))

---------------------------------------------------------------------------
(* TC008_test_update_user_language_settings.py *)

E8 == [mainLanguage |-> "absent", targetLanguage |-> "absent",
       showTranslations |-> "absent", showPhonetics |-> "absent"]

valid_payload == [mainLanguage |-> "s:en", targetLanguage |-> "s:fr",
                  showTranslations |-> "true", showPhonetics |-> "false"]

\* The keys of valid_payload in insertion order.
SettingsKeys == <<"mainLanguage", "targetLanguage", "showTranslations", "showPhonetics">>

SettingsBodies ==
    {NoJson(E8), JsonNull(E8), List(E8, <<>>)}
    \cup {Obj([mainLanguage |-> a, targetLanguage |-> b,
               showTranslations |-> c, showPhonetics |-> d]) :
            a \in {"absent", "s:en", "s:fr"}, b \in {"absent", "s:fr", "s:en"},
            c \in {"absent", "true", "false", "1"},
            d \in {"absent", "false", "true", "0"}}

TC008_Responses(i) ==
    TransportFailures(E8)
    \cup (IF i = 1
          THEN {Resp(st, NoJson(E8)) : st \in Statuses \ {200}}
               \cup {Resp(200, b) : b \in SettingsBodies}
          ELSE {Resp(st, NoJson(E8)) : st \in Statuses})

invalid_payloads ==
    << {},
       {<<"mainLanguage", "123">>, <<"targetLanguage", "fr">>,
        <<"showTranslations", "true">>, <<"showPhonetics", "false">>},
       {<<"mainLanguage", "en">>, <<"targetLanguage", "null">>,
        <<"showTranslations", "true">>, <<"showPhonetics", "false">>},
       {<<"mainLanguage", "en">>, <<"targetLanguage", "fr">>,
        <<"showTranslations", "yes">>, <<"showPhonetics", "false">>},
       {<<"mainLanguage", "en">>, <<"targetLanguage", "fr">>,
        <<"showTranslations", "true">>} >>

TC008_Request(i, rs) ==
    [method |-> "PUT", path |-> "/user/language-settings", id |-> "absent",
     body |-> "json",
     payload |->
        IF i = 1
        THEN {<<"mainLanguage", "en">>, <<"targetLanguage", "fr">>,
              <<"showTranslations", "true">>, <<"showPhonetics", "false">>}
        ELSE invalid_payloads[i - 1]]

test_update_user_language_settings(rs, je) ==
    LET n == Len(rs)
        r == rs[n]
        resp_json == r.body
    IN  ExceptRequestException(
            IF n = 1
            THEN Then(Request(r, 24),
                 Then(AssertThat(r.status = 200, 25, "status"),
                 Then(Json(r, je, 26),
                      ForEach([nth \in 1..Len(SettingsKeys) |-> LET key == SettingsKeys[nth] IN
                        Then(In(resp_json, key, 28),
                        Then(AssertThat(Has(resp_json, key), 28, "shape"),
                             AssertThat(PyEq(resp_json.f[key], valid_payload[key]),
                                        29, "shape")))]))))
            ELSE Then(Request(r, 41),
                      AssertThat(r.status >= 400 /\ r.status < 500, 42, "status")),
            44)

---------------------------------------------------------------------------
(* TC003_test_get_lessons_with_valid_level_and_language_parameters.py *)

E3 == [none |-> "absent"]

Lesson(t, lv, ti, id) == [t |-> t, level |-> lv, title |-> ti, lessonId |-> id]

valid_level == "s:B1"

\* Bodies of the answers to the six requests: lists of lessons for the two
\* requests that filter by level, list or not for the others.
LessonsBodies(i) ==
    {NoJson(E3), Obj(E3)}
    \cup CASE i = 1 ->
                {List(E3, xs) : xs \in SeqsUpTo({Lesson("obj", "s:B1", "s:x", "s:L1"),
                                                 Lesson("obj", "s:A1", "s:x", "s:L2"),
                                                 Lesson("obj", "s:B1", "absent", "s:L1"),
                                                 Lesson("s:x", "absent", "absent", "absent")},
                                                MaxItems)}
           [] i = 2 ->
                {List(E3, xs) : xs \in SeqsUpTo({Lesson("obj", "s:B1", "s:x", "s:L1"),
                                                 Lesson("obj", "s:A1", "s:x", "s:L2")},
                                                MaxItems)}
           [] OTHER -> {List(E3, <<>>)}

TC003_Responses(i) ==
    TransportFailures(E3)
    \cup {Resp(200, b) : b \in LessonsBodies(i)}
    \cup (IF i \in {5, 6}
          THEN {Resp(400, b) : b \in {NoJson(E3), JsonNull(E3), Obj(E3)}}
               \cup {Resp(st, NoJson(E3)) : st \in Statuses \ {200, 400}}
          ELSE {Resp(st, NoJson(E3)) : st \in Statuses \ {200}})

TC003_Request(i, rs) ==
    [method |-> "GET", path |-> "/lessons", id |-> "absent", body |-> "query",
     payload |->
        CASE i = 1 -> {<<"level", "B1">>, <<"language", "English">>}
          [] i = 2 -> {<<"level", "B1">>}
          [] i = 3 -> {<<"language", "English">>}
          [] i = 4 -> {}
          [] i = 5 -> {<<"level", "Z9">>, <<"language", "English">>}
          [] i = 6 -> {<<"level", "B1">>, <<"language", "1234$%">>}]

\* The loop body without its last assertion.
TC003_Lesson_NoLevelCheck(lesson) ==
    Then(AssertThat(lesson.t = "obj", 34, "shape"),
    Then(AssertThat(lesson.level # "absent", 35, "shape"),
    Then(AssertThat(lesson.title # "absent", 36, "shape"),
         AssertThat(lesson.lessonId # "absent", 37, "shape"))))

\* lines 33-39, one iteration: for lesson in lessons
TC003_Lesson(lesson) ==
    Then(AssertThat(lesson.t = "obj", 34, "shape"),
    Then(AssertThat(lesson.level # "absent", 35, "shape"),
    Then(AssertThat(lesson.title # "absent", 36, "shape"),
    Then(AssertThat(lesson.lessonId # "absent", 37, "shape"),
         AssertThat(PyEq(lesson.level, valid_level), 39, "shape")))))

test_get_lessons_with_valid_level_and_language_parameters(rs, je) ==
    LET n == Len(rs)
        r == rs[n]
        lessons == r.body
        \* status 200 and a JSON list: request at line q, asserts at s, j, l
        ListOf(q, s, j, l) ==
            Then(Request(r, q),
            Then(AssertThat(r.status = 200, s, "status"),
            Then(Json(r, je, j),
                 AssertThat(lessons.k = "list", l, "shape"))))
        \* status 200 with a list, or 400 with a JSON body
        ListOrError(q, s, j, l, e) ==
            Then(Request(r, q),
            Then(AssertThat(r.status \in {200, 400}, s, "status"),
                 IF r.status = 200
                 THEN Then(Json(r, je, j), AssertThat(lessons.k = "list", l, "shape"))
                 ELSE AssertThat(lessons.k \notin {"nojson", "null"}, e,
                                 IF lessons.k = "nojson" THEN "decode" ELSE "shape")))
    IN  ExceptRequestException(
            CASE n = 1 ->
                Then(ListOf(23, 29, 30, 31),
                     ForEach([nth \in 1..Len(lessons.items) |->
                                TC003_Lesson(lessons.items[nth])]))
              [] n = 2 -> ListOf(44, 50, 51, 52)
              [] n = 3 -> ListOf(56, 62, 63, 64)
              [] n = 4 -> ListOf(67, 72, 73, 74)
              [] n = 5 -> ListOrError(78, 85, 87, 88, 95)
              [] n = 6 -> ListOrError(99, 105, 107, 108, 114),
            117)

---------------------------------------------------------------------------
(* TC004_test_start_lesson_with_valid_and_invalid_lessonid.py *)

E4 == [none |-> "absent"]

StartLessonBodies ==
    {NoJson(E4), Obj(E4)}
    \cup {List(E4, xs) : xs \in SeqsUpTo({Lesson("obj", "s:B1", "s:x", "s:L1"),
                                          Lesson("obj", "s:B1", "s:x", "s:L2"),
                                          Lesson("obj", "s:B1", "s:x", "s:"),
                                          Lesson("obj", "s:B1", "s:x", "absent"),
                                          Lesson("obj", "s:B1", "s:x", "1"),
                                          Lesson("s:x", "absent", "absent", "absent")},
                                         MaxItems)}

TC004_Responses(i) ==
    TransportFailures(E4)
    \cup (IF i = 1
          THEN {Resp(st, NoJson(E4)) : st \in {s \in Statuses : s >= 400}}
               \cup {Resp(st, b) : st \in {s \in Statuses : s < 400},
                                   b \in StartLessonBodies}
          ELSE {Resp(st, NoJson(E4)) : st \in Statuses})

invalid_lesson_ids == <<"s:", "s:invalidLesson123", "s:00000000-0000-0000-0000-000000000000">>

\* The valid start request built from the last lesson of the list.
TC004_Request_LastItem(i, rs) ==
    IF i = 1
    THEN [method |-> "GET", path |-> "/lessons", id |-> "absent", body |-> "none",
          payload |-> {}]
    ELSE [method |-> "POST", path |-> "/lessons/{id}/start",
          id |-> IF i = 2 THEN rs[1].body.items[Len(rs[1].body.items)].lessonId
                 ELSE invalid_lesson_ids[i - 2],
          body |-> "none", payload |-> {}]

TC004_Request(i, rs) ==
    IF i = 1
    THEN [method |-> "GET", path |-> "/lessons", id |-> "absent", body |-> "none",
          payload |-> {}]
    ELSE [method |-> "POST", path |-> "/lessons/{id}/start",
          id |-> IF i = 2 THEN rs[1].body.items[1].lessonId ELSE invalid_lesson_ids[i - 2],
          body |-> "none", payload |-> {}]

\* The handlers without the "except AssertionError" clause.
TC004_Handlers_NoAssertionClause(tried) ==
    IF IsRequestException(tried.exc) THEN Raise("AssertionError", 32, tried.cause)
    ELSE tried

\* lines 31-34: except requests.RequestException / except AssertionError
TC004_Handlers(tried) ==
    IF IsRequestException(tried.exc) THEN Raise("AssertionError", 32, tried.cause)
    ELSE IF tried.exc = "AssertionError" THEN Raise("AssertionError", 34, tried.cause)
    ELSE tried

test_start_lesson_with_valid_and_invalid_lessonid(rs, je) ==
    LET n == Len(rs)
        r == rs[n]
        lessons == r.body
        valid_lesson_id == lessons.items[1].lessonId
        tried ==
            CASE n = 1 ->
                Then(Request(r, 11),
                Then(RaiseForStatus(r, 12),
                Then(Json(r, je, 13),
                Then(AssertThat(lessons.k = "list", 14, "shape"),
                Then(AssertThat(Len(lessons.items) > 0, 15, "precursor"),
                Then(IF lessons.items[1].t # "obj"
                     THEN Raise("AttributeError", 17, "precursor") ELSE NoExc,
                     AssertThat(Truthy(valid_lesson_id) /\ IsStr(valid_lesson_id),
                                18, "precursor")))))))
              [] n = 2 ->
                Then(Request(r, 21), AssertThat(r.status = 200, 22, "status"))
              [] OTHER ->
                Then(Request(r, 27), AssertThat(r.status \in {400, 404}, 29, "status"))
    IN  TC004_Handlers(tried)

---------------------------------------------------------------------------
(* TC005_test_get_user_gamification_state.py *)

E5 == [xp |-> "absent", level |-> "absent", streak |-> "absent",
       hearts |-> "absent", gems |-> "absent", achievements |-> "absent"]

GamificationBodies ==
    {NoJson(E5), JsonNull(E5), List(E5, <<>>)}
    \cup {[k |-> "obj",
           f |-> [xp |-> a, level |-> b, streak |-> c, hearts |-> d, gems |-> g,
                  achievements |-> h[1]],
           items |-> h[2]] :
            a \in {"absent", "1", "true", "s:x"}, b \in {"absent", "1", "0.5"},
            c \in {"absent", "1"}, d \in {"absent", "1"}, g \in {"absent", "1"},
            h \in ({"absent", "s:x"} \X {<<>>})
                  \cup ({"list"} \X SeqsUpTo({"s:a", "1"}, MaxItems))}

TC005_Responses(i) ==
    TransportFailures(E5)
    \cup {Resp(st, NoJson(E5)) : st \in {s \in Statuses : s >= 400}}
    \cup {Resp(st, b) : st \in {s \in Statuses : s < 400}, b \in GamificationBodies}

TC005_Request(i, rs) ==
    [method |-> "GET", path |-> "/gamification/state", id |-> "absent", body |-> "none", payload |-> {}]

test_get_user_gamification_state(rs, je) ==
    LET r == rs[1]
        json_data == r.body
        \* lines 31-33, one iteration
        Field(name, ofType) ==
            Then(AssertThat(json_data.f[name] # "absent", 32, "shape"),
                 AssertThat(ofType, 33, "shape"))
    IN  Then(ExceptRequestException(Then(Request(r, 14), RaiseForStatus(r, 15)), 17),
        Then(Json(r, je, 19),
        Then(AssertThat(json_data.k = "obj", 21, "shape"),
        Then(Field("xp", IsInt(json_data.f.xp)),
        Then(Field("level", IsInt(json_data.f.level)),
        Then(Field("streak", IsInt(json_data.f.streak)),
        Then(Field("hearts", IsInt(json_data.f.hearts)),
        Then(Field("gems", IsInt(json_data.f.gems)),
        Then(Field("achievements", json_data.f.achievements = "list"),
             ForEach([nth \in 1..Len(json_data.items) |->
                LET achievement == json_data.items[nth] IN AssertThat(IsStr(achievement), 37, "shape")
        ]))))))))))

---------------------------------------------------------------------------
(* TC006_test_get_user_achievements_list.py *)

E6 == [none |-> "absent"]

Achievement(t, i, ic, u) ==
    [t |-> t, id |-> i, name |-> "s:x", description |-> "s:x", icon |-> ic, unlocked |-> u]

Achievements ==
    {Achievement("obj", "s:a", "s:x", "true"), Achievement("obj", "s:a", "s:x", "1"),
     Achievement("obj", "absent", "s:x", "false"), Achievement("obj", "s:a", "1", "true"),
     Achievement("s:x", "absent", "absent", "absent")}

TC006_Responses(i) ==
    TransportFailures(E6)
    \cup {Resp(st, NoJson(E6)) : st \in {s \in Statuses : s >= 400}}
    \cup {Resp(st, b) : st \in {s \in Statuses : s < 400},
                        b \in {NoJson(E6), JsonNull(E6), Obj(E6)}
                              \cup {List(E6, xs) : xs \in SeqsUpTo(Achievements, MaxItems)}}

TC006_Request(i, rs) ==
    [method |-> "GET", path |-> "/gamification/achievements", id |-> "absent", body |-> "none", payload |-> {}]

test_get_user_achievements_list(rs, je) ==
    LET r == rs[1]
        data == r.body
        Member(a, key, l, ofType) ==
            AssertThat(a[key] # "absent" /\ ofType, l, "shape")
    IN  Then(ExceptRequestException(Then(Request(r, 15), RaiseForStatus(r, 16)), 18),
        Then(Json(r, je, 20),
        Then(AssertThat(data.k = "list", 22, "shape"),
             ForEach([nth \in 1..Len(data.items) |->
                LET achievement == data.items[nth] IN
                Then(AssertThat(achievement.t = "obj", 26, "shape"),
                Then(Member(achievement, "id", 27, IsStr(achievement.id)),
                Then(Member(achievement, "name", 28, IsStr(achievement.name)),
                Then(Member(achievement, "description", 29, IsStr(achievement.description)),
                Then(Member(achievement, "icon", 30, IsStr(achievement.icon)),
                     Member(achievement, "unlocked", 31, IsBool(achievement.unlocked)))))))
        ]))))

---------------------------------------------------------------------------
(* TC007_test_get_supported_languages.py *)

E7 == [none |-> "absent"]

Lang(c) == [t |-> "obj", code |-> c, name |-> "s:x", nativeName |-> "s:x", flag |-> "s:x"]

BadLangs ==
    {[t |-> "s:x", code |-> "absent", name |-> "absent", nativeName |-> "absent",
      flag |-> "absent"],
     [Lang("s:de") EXCEPT !.flag = "absent"],
     [Lang("s:de") EXCEPT !.name = "s:"],
     Lang("s:"), Lang("1")}

expected_language_codes == {"s:en", "s:es", "s:fr", "s:it", "s:hr", "s:zh"}

AllLanguages == <<Lang("s:en"), Lang("s:es"), Lang("s:fr"), Lang("s:it"), Lang("s:hr"),
                  Lang("s:zh")>>

Without(xs, i) == SubSeq(xs, 1, i - 1) \o SubSeq(xs, i + 1, Len(xs))

\* The complete list, the list with one entry missing or replaced by a
\* malformed one, the list with entries added, and short lists.
LanguageLists ==
    {AllLanguages}
    \cup {Without(AllLanguages, i) : i \in 1..6}
    \cup {[AllLanguages EXCEPT ![i] = b] : i \in 1..6, b \in BadLangs}
    \cup {AllLanguages \o xs : xs \in SeqsUpTo({Lang("s:de"), Lang("s:")}, MaxItems - 1)}
    \cup SeqsUpTo({Lang("s:en"), Lang("s:")}, MaxItems)

TC007_Responses(i) ==
    TransportFailures(E7)
    \cup {Resp(st, NoJson(E7)) : st \in {s \in Statuses : s >= 400}}
    \cup {Resp(st, b) : st \in {s \in Statuses : s < 400},
                        b \in {NoJson(E7), JsonNull(E7), Obj(E7)}
                              \cup {List(E7, xs) : xs \in LanguageLists}}

TC007_Request(i, rs) ==
    [method |-> "GET", path |-> "/languages", id |-> "absent", body |-> "none", payload |-> {}]

test_get_supported_languages(rs, je) ==
    LET r == rs[1]
        languages == r.body
        decoded == Json(r, je, 20)
        found_codes == {languages.items[i].code : i \in 1..Len(languages.items)}
        NonEmptyStr(v) == IsStr(v) /\ Truthy(v)
    IN  Then(ExceptRequestException(Then(Request(r, 14), RaiseForStatus(r, 15)), 17),
        Then(IF IsValueError(decoded.exc)
             THEN Raise("AssertionError", 22, decoded.cause) ELSE decoded,
        Then(AssertThat(languages.k = "list", 24, "shape"),
        Then(ForEach([nth \in 1..Len(languages.items) |->
                LET lang == languages.items[nth] IN
                Then(AssertThat(lang.t = "obj", 28, "shape"),
                Then(AssertThat(\A key \in {"code", "name", "nativeName", "flag"} :
                                    lang[key] # "absent", 30, "shape"),
                Then(AssertThat(NonEmptyStr(lang.code), 32, "shape"),
                Then(AssertThat(NonEmptyStr(lang.name), 33, "shape"),
                Then(AssertThat(NonEmptyStr(lang.nativeName), 34, "shape"),
                     AssertThat(NonEmptyStr(lang.flag), 35, "shape"))))))]),
             AssertThat(expected_language_codes \ found_codes = {}, 41, "shape")
        ))))

---------------------------------------------------------------------------
(* TC009_test_speech_to_text_conversion.py *)

E9 == [text |-> "absent", confidence |-> "absent"]

RecognizeBodies ==
    {NoJson(E9), JsonNull(E9), List(E9, <<>>)}
    \cup {Obj([text |-> tx, confidence |-> c]) :
            tx \in {"absent", "null", "s:", "s:hello", "1"},
            c \in {"absent", "null", "0", "0.5", "1", "2", "true", "false", "s:x"}}

TC009_Responses(i) ==
    TransportFailures(E9)
    \cup {Resp(st, NoJson(E9)) : st \in Statuses \ {200}}
    \cup (IF i = 3 THEN {Resp(200, NoJson(E9))}
          ELSE {Resp(200, b) : b \in RecognizeBodies})

TC009_Request(i, rs) ==
    [method |-> "POST", path |-> "/speech/recognize", id |-> "absent",
     body |-> "multipart",
     payload |->
        CASE i = 1 -> {<<"audio", "test.wav audio/wav">>}
          [] i = 2 -> {<<"audio", "test.txt text/plain">>}
          [] i = 3 -> {}]

\* except (RequestException, Timeout, AssertionError) as e: raise AssertionError(...)
ExceptRequestOrAssertion(raised, l) ==
    IF IsRequestException(raised.exc) \/ raised.exc = "AssertionError"
    THEN Raise("AssertionError", l, raised.cause) ELSE raised

test_speech_to_text_conversion(rs, je) ==
    LET n == Len(rs)
        r == rs[n]
        json_data == r.body
        \* dict.get(key, None)
        Get(key) == IF json_data.f[key] = "absent" THEN "null" ELSE json_data.f[key]
        confidence == json_data.f.confidence
    IN  CASE n = 1 ->
            ExceptRequestOrAssertion(
                Then(Request(r, 23),
                Then(AssertThat(r.status = 200, 24, "status"),
                Then(Json(r, je, 25),
                Then(In(json_data, "text", 26),
                Then(AssertThat(Has(json_data, "text"), 26, "shape"),
                Then(AssertThat(IsStr(json_data.f.text), 27, "shape"),
                Then(AssertThat(Has(json_data, "confidence"), 28, "shape"),
                Then(AssertThat(IsNumber(confidence), 30, "shape"),
                     AssertThat(0 <= Times10(confidence) /\ Times10(confidence) <= 10,
                                31, "shape"))))))))),
                33)
          [] n = 2 ->
            ExceptRequestOrAssertion(
                Then(Request(r, 38),
                Then(AssertThat(r.status # 500, 40, "status"),
                     IF r.status = 200
                     THEN Then(Json(r, je, 42),
                          Then(IF json_data.k # "obj"
                               THEN Raise("AttributeError", 44, "shape") ELSE NoExc,
                               AssertThat((Get("text") = "null" \/ PyEq(Get("text"), "s:"))
                                          \/ (Get("confidence") = "null"
                                              \/ PyEq(Get("confidence"), "0")),
                                          46, "shape")))
                     ELSE AssertThat(Is4xx(r.status), 49, "status"))),
                51)
          [] n = 3 ->
            ExceptRequestOrAssertion(
                Then(Request(r, 56),
                Then(AssertThat(r.status # 500, 58, "status"),
                     AssertThat(Is4xx(r.status), 59, "status"))),
                61)

---------------------------------------------------------------------------
(* TC010_test_text_to_speech_synthesis.py *)

E10 == [audioUrl |-> "absent"]

SynthesizeBodies ==
    {NoJson(E10), JsonNull(E10), List(E10, <<>>)}
    \cup {Obj([audioUrl |-> u]) : u \in {"absent", "s:http://a", "s:ftp://a", "1"}}

TC010_Responses(i) ==
    TransportFailures(E10)
    \cup (IF i = 1
          THEN {Resp(st, NoJson(E10)) : st \in Statuses \ {200}}
               \cup {Resp(200, b) : b \in SynthesizeBodies}
          ELSE {Resp(st, NoJson(E10)) : st \in Statuses})

TC010_Request(i, rs) ==
    [method |-> "POST", path |-> "/speech/synthesize", id |-> "absent", body |-> "json",
     payload |->
        CASE i = 1 -> {<<"text", "Hello, world!">>, <<"language", "en">>,
                       <<"voice", "default">>}
          [] i = 2 -> {<<"language", "en">>, <<"voice", "default">>}
          [] i = 3 -> {<<"text", "Hello again">>, <<"voice", "default">>}
          [] i = 4 -> {<<"text", "Hello once more">>, <<"language", "en">>}
          [] i = 5 -> {<<"text", "Bonjour">>, <<"language", "xx-invalid">>,
                       <<"voice", "default">>}
          [] i = 6 -> {<<"text", "Hola">>, <<"language", "es">>,
                       <<"voice", "unknown-voice">>}]

\* str.startswith("http")
StartsWithHttp(v) == v = "s:http://a"

\* The handler written as "except Exception: pass".
ExceptException_Swallow(raised, l) == NoExc

\* except Exception as e: assert False, ...   (at line l)
ExceptException(raised, l) ==
    IF raised.exc # "none" THEN Raise("AssertionError", l, raised.cause) ELSE raised

test_text_to_speech_synthesis(rs, je) ==
    LET n == Len(rs)
        r == rs[n]
        json_resp == r.body
        \* a request that must be refused: request at q, assert at a, handler at h
        Refused(q, a, h) ==
            ExceptException(
                Then(Request(r, q), AssertThat(r.status >= 400, a, "status")), h)
    IN  CASE n = 1 ->
            ExceptException(
                Then(Request(r, 20),
                Then(AssertThat(r.status = 200, 21, "status"),
                Then(Json(r, je, 22),
                Then(In(json_resp, "audioUrl", 23),
                Then(AssertThat(Has(json_resp, "audioUrl"), 23, "shape"),
                     AssertThat(IsStr(json_resp.f.audioUrl)
                                /\ StartsWithHttp(json_resp.f.audioUrl), 24, "shape")))))),
                27)
          [] n = 2 -> Refused(35, 36, 38)
          [] n = 3 -> Refused(46, 47, 49)
          [] n = 4 -> Refused(57, 58, 60)
          [] n = 5 -> Refused(69, 70, 72)
          [] n = 6 -> Refused(81, 82, 84)

---------------------------------------------------------------------------
(* The scripts as data *)

NumRequests(s) ==
    CASE s = "TC001" -> 3
      [] s = "TC002" -> 7
      [] s = "TC003" -> 6
      [] s = "TC004" -> 5
      [] s = "TC008" -> 6
      [] s = "TC009" -> 3
      [] s = "TC010" -> 6
      [] s = "TC005" -> 1
      [] s = "TC006" -> 1
      [] s = "TC007" -> 1

\* The i-th request of script s, given the responses rs received so far.
RequestOf(s, i, rs) ==
    CASE s = "TC001" -> TC001_Request(i, rs)
      [] s = "TC002" -> TC002_Request(i, rs)
      [] s = "TC003" -> TC003_Request(i, rs)
      [] s = "TC004" -> TC004_Request(i, rs)
      [] s = "TC008" -> TC008_Request(i, rs)
      [] s = "TC009" -> TC009_Request(i, rs)
      [] s = "TC010" -> TC010_Request(i, rs)
      [] s = "TC005" -> TC005_Request(i, rs)
      [] s = "TC006" -> TC006_Request(i, rs)
      [] s = "TC007" -> TC007_Request(i, rs)

---------------------------------------------------------------------------
(* State machine *)

Running == [result |-> "running", exc |-> "none", line |-> 0, cause |-> "none"]

NoPrev == [result |-> "none", exc |-> "none", line |-> 0, cause |-> "none"]

\* A script that skips its checks once it has been executed.
Conclude_SkipsWhenRunBefore(s, n, e) ==
    IF e.exc # "none" /\ run = 1
    THEN [result |-> "fail", exc |-> e.exc, line |-> e.line, cause |-> e.cause]
    ELSE IF n = NumRequests(s) \/ e.exc # "none"
         THEN [result |-> "pass", exc |-> "none", line |-> 0, cause |-> "none"]
         ELSE Running

\* How the test function stands after the statements that follow response
\* number n raised e (or nothing): an exception propagates out of the
\* function, the last statement returns, or the next request is due.
Conclude(s, n, e) ==
    IF e.exc # "none"
    THEN [result |-> "fail", exc |-> e.exc, line |-> e.line, cause |-> e.cause]
    ELSE IF n = NumRequests(s)
         THEN [result |-> "pass", exc |-> "none", line |-> 0, cause |-> "none"]
         ELSE Running

\* The script's last line calls the test function.
Init ==
    /\ script \in Scripts
    /\ pc = "ready"
    /\ sent = <<>>
    /\ resps = <<>>
    /\ outcome = Running
    /\ run = 1
    /\ prev = NoPrev
    /\ backend = <<>>

\* A client that sends its next request without waiting for the answer.
Send_NoWait ==
    /\ pc \in {"ready", "waiting"}
    /\ Len(sent) < NumRequests(script)
    /\ sent' = Append(sent, RequestOf(script, Len(resps) + 1, resps))
    /\ pc' = "waiting"
    /\ UNCHANGED <<script, resps, outcome, run, prev, backend>>

\* requests.get / post / put is called: the request goes out and the
\* function blocks.
Send ==
    /\ pc = "ready"
    /\ sent' = Append(sent, RequestOf(script, Len(resps) + 1, resps))
    /\ pc' = "waiting"
    /\ UNCHANGED <<script, resps, outcome, run, prev, backend>>

\* A runner that records the failure and goes on to the next scenario.
Resume_KeepGoing(s, n, e) ==
    IF n = NumRequests(s) THEN "done" ELSE "ready"

\* Where control goes after the statements that follow response number n
\* raised e (or nothing): an exception that no handler caught leaves the
\* function, so nothing after it runs.
Resume(s, n, e) ==
    IF e.exc # "none" \/ n = NumRequests(s) THEN "done" ELSE "ready"

\* What the backend may answer to the request in flight, S being what it can
\* answer at all: anything, unless its state is as in the execution before
\* (backend holds that execution's answers), when it answers the same again.
Answers(S) ==
    IF backend = <<>> THEN S ELSE {r \in S : r = backend[Len(sent)]}

\* The blocked call returns response r (or raises), and the statements that
\* follow it, up to the next request or the end of the function, raise e or
\* nothing.
Receive(r, e) ==
    /\ resps' = Append(resps, r)
    /\ outcome' = Conclude(script, Len(resps) + 1, e)
    /\ pc' = Resume(script, Len(resps) + 1, e)
    /\ UNCHANGED <<script, sent, run, prev, backend>>

TC001 ==
    /\ pc = "waiting" /\ script = "TC001"
    /\ \E r \in Answers(TC001_Responses(Len(sent))), je \in JsonErrors :
        Receive(r, test_signin_with_valid_and_invalid_credentials(Append(resps, r), je))

TC002 ==
    /\ pc = "waiting" /\ script = "TC002"
    /\ \E r \in Answers(TC002_Responses(Len(sent))), je \in JsonErrors :
        Receive(r, test_signup_with_valid_and_invalid_data(Append(resps, r), je))

TC003 ==
    /\ pc = "waiting" /\ script = "TC003"
    /\ \E r \in Answers(TC003_Responses(Len(sent))), je \in JsonErrors :
        Receive(r, test_get_lessons_with_valid_level_and_language_parameters(
                       Append(resps, r), je))

TC004 ==
    /\ pc = "waiting" /\ script = "TC004"
    /\ \E r \in Answers(TC004_Responses(Len(sent))), je \in JsonErrors :
        Receive(r, test_start_lesson_with_valid_and_invalid_lessonid(Append(resps, r), je))

TC005 ==
    /\ pc = "waiting" /\ script = "TC005"
    /\ \E r \in Answers(TC005_Responses(Len(sent))), je \in JsonErrors :
        Receive(r, test_get_user_gamification_state(Append(resps, r), je))

TC006 ==
    /\ pc = "waiting" /\ script = "TC006"
    /\ \E r \in Answers(TC006_Responses(Len(sent))), je \in JsonErrors :
        Receive(r, test_get_user_achievements_list(Append(resps, r), je))

TC007 ==
    /\ pc = "waiting" /\ script = "TC007"
    /\ \E r \in Answers(TC007_Responses(Len(sent))), je \in JsonErrors :
        Receive(r, test_get_supported_languages(Append(resps, r), je))

TC008 ==
    /\ pc = "waiting" /\ script = "TC008"
    /\ \E r \in Answers(TC008_Responses(Len(sent))), je \in JsonErrors :
        Receive(r, test_update_user_language_settings(Append(resps, r), je))

TC009 ==
    /\ pc = "waiting" /\ script = "TC009"
    /\ \E r \in Answers(TC009_Responses(Len(sent))), je \in JsonErrors :
        Receive(r, test_speech_to_text_conversion(Append(resps, r), je))

TC010 ==
    /\ pc = "waiting" /\ script = "TC010"
    /\ \E r \in Answers(TC010_Responses(Len(sent))), je \in JsonErrors :
        Receive(r, test_text_to_speech_synthesis(Append(resps, r), je))

\* The script is executed again: a new process, the same configuration.
\* prev keeps how the execution before it ended.
Rerun ==
    /\ pc = "done"
    /\ run < MaxRuns
    /\ run' = run + 1
    /\ prev' = outcome
    /\ pc' = "ready"
    /\ sent' = <<>>
    /\ resps' = <<>>
    /\ outcome' = Running
    /\ backend' = <<>>
    /\ UNCHANGED script

\* The scripts that only send GET requests, and only one: they leave the
\* backend as they found it.
GetOnlyScripts == {"TC005", "TC006", "TC007"}

\* A GET-only script is executed again, with the same configuration, while
\* the backend is as it was: it will answer as it did.
Repeat ==
    /\ pc = "done"
    /\ run < MaxRuns
    /\ script \in GetOnlyScripts
    /\ run' = run + 1
    /\ prev' = outcome
    /\ pc' = "ready"
    /\ sent' = <<>>
    /\ resps' = <<>>
    /\ outcome' = Running
    /\ backend' = resps
    /\ UNCHANGED script

Next ==
    \/ Send
    \/ TC001
    \/ TC002
    \/ TC003
    \/ TC004
    \/ TC005
    \/ TC006
    \/ TC007
    \/ TC008
    \/ TC009
    \/ TC010

\* One execution of one script.
Spec == Init /\ [][Next]_vars

NextRerun == Next \/ Rerun

\* Up to MaxRuns executions of one script, one after the other.
SpecRerun == Init /\ [][NextRerun]_vars

InitRepeat == Init /\ script \in GetOnlyScripts

NextRepeat ==
    \/ Send
    \/ TC005
    \/ TC006
    \/ TC007
    \/ Repeat

\* Up to MaxRuns executions of one GET-only script against an unchanged
\* backend.
SpecRepeat == InitRepeat /\ [][NextRepeat]_vars

---------------------------------------------------------------------------
(* Claims *)

Passed(s) == script = s /\ outcome.result = "pass"

Failed(s) == script = s /\ outcome.result = "fail"

\* The statuses script s accepts for its i-th request.
StatusAccepted(s, i, st) ==
    CASE s = "TC001" -> IF i = 1 THEN st = 200 ELSE st # 200
      [] s = "TC002" -> IF i = 1 THEN st \in {200, 201} ELSE st \in 400..499
      [] s = "TC003" -> IF i <= 4 THEN st = 200 ELSE st \in {200, 400}
      [] s = "TC004" -> IF i = 1 THEN st < 400 ELSE IF i = 2 THEN st = 200
                        ELSE st \in {400, 404}
      [] s \in {"TC005", "TC006", "TC007"} -> st < 400
      [] s = "TC008" -> IF i = 1 THEN st = 200 ELSE st \in 400..499
      [] s = "TC009" -> IF i = 1 THEN st = 200 ELSE IF i = 2 THEN st = 200 \/ st \in 400..499
                        ELSE st \in 400..499
      [] s = "TC010" -> IF i = 1 THEN st = 200 ELSE st >= 400

NonEmptyString(v) == v \in StrTokens \ {"s:"}

AllItems(b, P(_)) == b.k = "list" /\ \A j \in 1..Len(b.items) : P(b.items[j])

\* The body shape script s declares for the answer r to its i-th request
\* (TRUE where it declares none); types are the Python types the script
\* names, so int and float admit the booleans.
ShapeDeclared(s, i, r) ==
    LET b == r.body
        Member(key, key2) == IF b.f[key] # "absent" THEN b.f[key] ELSE b.f[key2]
    IN  CASE s = "TC001" ->
                IF i = 1
                THEN b.k = "obj" /\ b.f.user = "obj" /\ NonEmptyString(b.f.token)
                ELSE \/ b.k = "nojson"
                     \/ b.k = "obj" /\ (b.f.error # "absent" \/ b.f = E1)
          [] s = "TC002" ->
                i = 1 =>
                    /\ b.k = "obj"
                    /\ b.f.id # "absent" \/ b.f.user # "absent"
                    /\ Member("name", "uname") = valid_user.name
                    /\ Member("email", "uemail") = valid_user.email
          [] s = "TC003" ->
                CASE i = 1 -> AllItems(b, LAMBDA x :
                                /\ x.t = "obj"
                                /\ x.title # "absent" /\ x.lessonId # "absent"
                                /\ x.level = "s:B1")
                  [] i \in 2..4 -> b.k = "list"
                  [] OTHER -> IF r.status = 200 THEN b.k = "list"
                              ELSE b.k \notin {"nojson", "null"}
          [] s = "TC004" ->
                i = 1 =>
                    /\ b.k = "list" /\ Len(b.items) > 0
                    /\ b.items[1].t = "obj" /\ NonEmptyString(b.items[1].lessonId)
          [] s = "TC005" ->
                /\ b.k = "obj"
                /\ \A key \in {"xp", "level", "streak", "hearts", "gems"} :
                        b.f[key] \in {"0", "1", "2", "true", "false"}
                /\ b.f.achievements = "list"
                /\ \A j \in 1..Len(b.items) : b.items[j] \in StrTokens
          [] s = "TC006" ->
                AllItems(b, LAMBDA x :
                    /\ x.t = "obj"
                    /\ \A key \in {"id", "name", "description", "icon"} : x[key] \in StrTokens
                    /\ x.unlocked \in {"true", "false"})
          [] s = "TC007" ->
                /\ AllItems(b, LAMBDA x :
                    /\ x.t = "obj"
                    /\ \A key \in {"code", "name", "nativeName", "flag"} :
                            NonEmptyString(x[key]))
                /\ \A c \in {"s:en", "s:es", "s:fr", "s:it", "s:hr", "s:zh"} :
                        \E j \in 1..Len(b.items) : b.items[j].code = c
          [] s = "TC008" ->
                i = 1 =>
                    /\ b.k = "obj"
                    /\ b.f.mainLanguage = "s:en" /\ b.f.targetLanguage = "s:fr"
                    /\ b.f.showTranslations \in {"true", "1"}
                    /\ b.f.showPhonetics \in {"false", "0"}
          [] s = "TC009" ->
                CASE i = 1 -> /\ b.k = "obj"
                              /\ b.f.text \in StrTokens
                              /\ b.f.confidence \in {"0", "0.5", "1", "true", "false"}
                  [] i = 2 -> r.status = 200 =>
                                /\ b.k = "obj"
                                /\ \/ b.f.text \in {"absent", "null", "s:"}
                                   \/ b.f.confidence \in {"absent", "null", "0", "false"}
                  [] OTHER -> TRUE
          [] s = "TC010" ->
                i = 1 => b.k = "obj" /\ b.f.audioUrl = "s:http://a"

\* C1: a script that ends normally (Pass) has sent all its requests, has
\* received a response to each, each with a status the script accepts for
\* that request and, where the script declares a body shape, with a body of
\* that shape.  For sign-in: 200 with an object user and a non-empty string
\* token, then two answers other than 200; for languages: a list whose
\* entries have non-empty string code, name, nativeName and flag and among
\* whose codes are en, es, fr, it, hr and zh.
C1_PassImpliesContract ==
    outcome.result = "pass" =>
        /\ Len(resps) = NumRequests(script)
        /\ \A i \in 1..Len(resps) :
            /\ resps[i].kind = "response"
            /\ StatusAccepted(script, i, resps[i].status)
            /\ ShapeDeclared(script, i, resps[i])

\* Every script can pass: the sign-in script has.
C1_Witness == Passed("TC001") /\ Len(resps) = 3

\* C2, as claimed: whenever a script has ended, each of its requests has
\* been sent, also those after a scenario whose checks failed.
C2_LaterScenariosStillSent ==
    pc = "done" => Len(sent) = NumRequests(script)

\* C2, amended: a failed check ends the script.  When a script has failed,
\* it has stopped, and the last request it sent is the one whose answer (or
\* whose transport failure) made it fail: no later scenario is sent.
C2_FailureEndsScript ==
    outcome.result = "fail" => pc = "done" /\ Len(sent) = Len(resps)

\* The sign-in script failed on its first scenario; the two invalid sign-ins
\* were not sent.
C2_Witness ==
    Failed("TC001") /\ Len(sent) = 1 /\ outcome.cause = "status"

\* The execution before this one and this one failed in the same way: the
\* same exception class raised by the same statement.
SameFailurePath ==
    /\ prev.result = "fail" /\ outcome.result = "fail"
    /\ prev.exc = outcome.exc /\ prev.line = outcome.line

\* One of the two executions failed because no response arrived, the other
\* because a response arrived with a status the script does not accept.
TransportAndStatus == {prev.cause, outcome.cause} = {"transport", "status"}

\* C3, as claimed: in no script do a transport failure and an unaccepted
\* status end in the same failure path.
C3_TransportDistinctFromStatus ==
    ~(TransportAndStatus /\ SameFailurePath)

\* C3, amended: in the sign-in, signup, lessons and settings-update scripts
\* a transport failure and an unaccepted status never end in the same
\* failure path.  (The gamification, achievements, languages, start-lesson,
\* recognize and synthesize scripts report both from one handler.)
C3_DistinctInFourScripts ==
    script \in {"TC001", "TC002", "TC003", "TC008"} =>
        ~(TransportAndStatus /\ SameFailurePath)

\* The lessons script failed once on a transport failure and once on a
\* status, in different ways.
C3_Witness ==
    /\ script = "TC003" /\ TransportAndStatus
    /\ prev.result = "fail" /\ outcome.result = "fail"
    /\ prev.line # outcome.line

\* C4, as claimed: a start-lesson run that fails because GET /lessons did
\* not supply a lesson id fails in another way than a run that fails because
\* POST /lessons/{id}/start answered with a wrong status.
C4_PrecursorFailureDistinct ==
    script = "TC004" =>
        ~(/\ prev.cause = "precursor" /\ outcome.cause = "status" /\ Len(resps) >= 2
          /\ SameFailurePath)

\* C4, amended: a start-lesson run that fails because GET /lessons did not
\* supply a lesson id fails before any POST is sent, with the AssertionError
\* of the handler at line 34 (or, when the first item is no object, with an
\* AttributeError from line 17); a wrong status of a POST
\* /lessons/{id}/start ends in the same handler at line 34.
C4_PrecursorFailsInSharedHandler ==
    script = "TC004" =>
        /\ outcome.cause = "precursor" =>
            /\ Len(sent) = 1
            /\ \/ outcome.exc = "AssertionError" /\ outcome.line = 34
               \/ outcome.exc = "AttributeError" /\ outcome.line = 17
        /\ (outcome.cause = "status" /\ Len(resps) >= 2) =>
            outcome.exc = "AssertionError" /\ outcome.line = 34

\* GET /lessons returned an empty list in one run; POST start answered 500
\* in the other.
C4_Witness ==
    /\ script = "TC004" /\ prev.cause = "precursor" /\ prev.line = 34
    /\ outcome.cause = "status" /\ Len(resps) = 2 /\ outcome.line = 34

\* The script sent an empty JSON object and its answer was a 4xx.
EmptyObjectRefused ==
    \E i \in 1..Len(resps) :
        /\ sent[i].body = "json" /\ sent[i].payload = {}
        /\ resps[i].kind = "response" /\ resps[i].status \in 400..499

\* C5, as claimed: the signup, sign-in and settings-update scripts each
\* pass only if they sent an empty object and it was answered with a 4xx.
C5_EmptyObjectInThreeScripts ==
    (script \in {"TC001", "TC002", "TC008"} /\ outcome.result = "pass")
        => EmptyObjectRefused

\* C5, amended: the signup and settings-update scripts each pass only if
\* they sent an empty object and it was answered with a status in
\* [400,500); the sign-in script never sends an empty object.
C5_EmptyObjectInTwoScripts ==
    /\ (script \in {"TC002", "TC008"} /\ outcome.result = "pass") => EmptyObjectRefused
    /\ script = "TC001" => \A i \in 1..Len(sent) : sent[i].payload # {}

\* The signup script passed.
C5_Witness == Passed("TC002") /\ sent[2].payload = {} /\ resps[2].status = 404

\* C6: the settings-update script passes only if the answer to the valid
\* PUT has status 200 and holds each of the four submitted keys with the
\* submitted value (JSON true is not JSON 1).
C6_EchoExact ==
    Passed("TC008") =>
        /\ resps[1].status = 200
        /\ resps[1].body.k = "obj"
        /\ \A i \in 1..4 : resps[1].body.f[SettingsKeys[i]] = valid_payload[SettingsKeys[i]]

\* C7, as claimed: the lessons script passes only if the level-only request
\* (the second) returned 200 and a list whose items all have level B1.
C7_LevelOnlyFiltered ==
    Passed("TC003") =>
        /\ resps[2].status = 200
        /\ AllItems(resps[2].body, LAMBDA x : x.level = "s:B1")

\* C7, amended: the lessons script passes only if the request with level=B1
\* and language=English (the first) returned 200 and a list whose items all
\* have level B1, and the level-only request returned 200 and a list.
C7_LevelAndLanguageFiltered ==
    Passed("TC003") =>
        /\ resps[1].status = 200
        /\ AllItems(resps[1].body, LAMBDA x : x.level = "s:B1")
        /\ resps[2].status = 200
        /\ resps[2].body.k = "list"

\* The lessons script passed on a non-empty answer to its first request.
C7_Witness == Passed("TC003") /\ Len(resps[1].body.items) > 0

\* C8: the signup script passes only if the answer to the valid signup has
\* status 200 or 201 and is an object with the user's id, as id or as
\* user.id, and with name and email as submitted.
C8_SignupCarriesId ==
    Passed("TC002") =>
        LET b == resps[1].body
        IN  /\ resps[1].status \in {200, 201}
            /\ b.k = "obj"
            /\ b.f.id # "absent" \/ (b.f.user = "obj" /\ b.f.uid # "absent")

\* C9: the synthesize script passes only if each of the five requests with
\* a missing or invalid field was answered with a 4xx.
C9_InvalidSynthesisGets4xx ==
    Passed("TC010") => \A i \in 2..6 : resps[i].status \in 400..499

JsonExpected(s, i, r) ==
    /\ r.kind = "response"
    /\ StatusAccepted(s, i, r.status)
    /\ CASE s \in {"TC001", "TC002", "TC004", "TC008", "TC009", "TC010"} ->
                i = 1 \/ (s = "TC009" /\ i = 2 /\ r.status = 200)
          [] OTHER -> TRUE

\* The lines from which script s reports a request that got no response.
TransportHandlerLines(s) ==
    CASE s = "TC001" -> {28, 50, 63}
      [] s = "TC002" -> {35, 51}
      [] s = "TC003" -> {117}
      [] s = "TC004" -> {32}
      [] s = "TC005" -> {17}
      [] s = "TC006" -> {18}
      [] s = "TC007" -> {17}
      [] s = "TC008" -> {44}
      [] s = "TC009" -> {33, 51, 61}
      [] s = "TC010" -> {27, 38, 49, 60, 72, 84}

\* An answer with an accepted status and an undecodable body, where the
\* script needs JSON, never lets the script pass.
MalformedBodyNeverPasses ==
    \A i \in 1..Len(resps) :
        (JsonExpected(script, i, resps[i]) /\ resps[i].body.k = "nojson")
            => outcome.result = "fail"

\* C11: an answer with an accepted status and a body that is no JSON, where
\* the script needs JSON, makes the script fail, and the failure is not
\* raised from the lines that report a request without a response.
C11_MalformedBodyNotTransport ==
    /\ MalformedBodyNeverPasses
    /\ outcome.cause = "decode" =>
            /\ outcome.result = "fail"
            /\ outcome.line \notin TransportHandlerLines(script)

\* In the scripts that decode outside every handler, or catch ValueError
\* themselves, the undecodable body is reported apart from a missing response.
MalformedBodyApartWhereNoHandlerAround ==
    script \in {"TC001", "TC002", "TC005", "TC006", "TC007"} =>
        C11_MalformedBodyNotTransport

\* A request without a response is reported from the lines listed above.
TransportReportedFromHandlerLines ==
    outcome.cause = "transport" => outcome.line \in TransportHandlerLines(script)

StartLessonOrdered(GetStatusOk(_)) ==
    (script = "TC004" /\ Len(sent) >= 2) =>
        LET got == resps[1]
        IN  /\ sent[1].method = "GET" /\ sent[1].path = "/lessons"
            /\ got.kind = "response" /\ GetStatusOk(got.status)
            /\ got.body.k = "list" /\ Len(got.body.items) > 0
            /\ got.body.items[1].t = "obj"
            /\ NonEmptyString(got.body.items[1].lessonId)
            /\ sent[2].method = "POST" /\ sent[2].path = "/lessons/{id}/start"
            /\ sent[2].id = got.body.items[1].lessonId
            /\ Len(sent) >= 3 =>
                    /\ resps[2].kind = "response" /\ resps[2].status = 200
                    /\ \A i \in 3..Len(sent) :
                        /\ sent[i].method = "POST" /\ sent[i].id = invalid_lesson_ids[i - 2]
                        /\ i > 3 => resps[i - 1].status \in {400, 404}

\* C13, as claimed: no POST /lessons/{id}/start is sent unless GET /lessons
\* completed with a 2xx status and a non-empty list whose first item has a
\* non-empty string lessonId; the valid start names that lessonId; the
\* invalid-id starts are sent only after the valid start answered 200.
C13_StartAfter2xxLessons ==
    StartLessonOrdered(LAMBDA st : st \in 200..299)

\* C13, amended: the same, with "a status below 400" (what raise_for_status
\* lets through, a 3xx included) for "a 2xx status".
C13_StartAfterLessonsBelow400 ==
    StartLessonOrdered(LAMBDA st : st < 400)

\* The script has sent all five requests, the list had two lessons with
\* different ids.
C13_Witness ==
    /\ script = "TC004" /\ Len(sent) = 5
    /\ Len(resps[1].body.items) = 2
    /\ resps[1].body.items[1].lessonId # resps[1].body.items[2].lessonId

\* At most one request is in flight: every request but the last has got its
\* answer (or its transport failure), and the last is in flight exactly
\* while the script waits.
OneAtATime ==
    /\ Len(sent) \in {Len(resps), Len(resps) + 1}
    /\ Len(sent) = Len(resps) + 1 <=> pc = "waiting"
    /\ Len(sent) <= NumRequests(script)

\* The requests go out in the order of the program text.  For the sign-in
\* script: valid credentials, invalid email, invalid password; for the signup
\* script: the valid user, then the invalid ones as listed.
ProgramOrder ==
    /\ \A i \in 1..Len(sent) : sent[i] = RequestOf(script, i, resps)
    /\ script = "TC001" =>
            \A i \in 1..Len(sent) :
                sent[i].payload =
                    <<{<<"email", "valid_email">>, <<"password", "valid_password">>},
                      {<<"email", "invalid_email">>, <<"password", "valid_password">>},
                      {<<"email", "valid_email">>, <<"password", "invalid_password">>}>>[i]
    /\ script = "TC002" =>
            \A i \in 1..Len(sent) :
                /\ (sent[i].payload = {<<"name", "Test User">>,
                                       <<"email", "testuser@example.com">>,
                                       <<"password", "test_password">>}) <=> (i = 1)
                /\ i > 1 => /\ sent[i].payload = invalid_users[i - 1]
                            /\ resps[1].kind = "response"
                            /\ resps[1].status \in {200, 201}

\* Every request after the first was sent when the request before it had got
\* a response with a status the script accepts and, where Checked(i) holds
\* for that response, with the body the script requires.
SentAfterChecks(Checked(_)) ==
    \A i \in 2..Len(sent) :
        /\ resps[i - 1].kind = "response"
        /\ StatusAccepted(script, i - 1, resps[i - 1].status)
        /\ Checked(i - 1) => ShapeDeclared(script, i - 1, resps[i - 1])

\* C14, as claimed: requests go out one at a time in program order, each
\* only after the request before it has got its response and every check on
\* that response has passed.
C14_OneAtATimeAfterAllChecks ==
    OneAtATime /\ ProgramOrder /\ SentAfterChecks(LAMBDA i : TRUE)

\* C14, amended: the same, but in the sign-in script the body of the answer
\* to the invalid-email sign-in is checked (lines 68-77) only after the
\* invalid-password sign-in has been sent and answered.
C14_OneAtATimeAfterInlineChecks ==
    OneAtATime /\ ProgramOrder
        /\ SentAfterChecks(LAMBDA i : ~(script = "TC001" /\ i = 2))

\* The signup script has sent its last invalid signup.
C14_Witness ==
    script = "TC002" /\ Len(sent) = 7 /\ pc = "waiting"

====
